---- MODULE Spec2Model ----
(***************************************************************************)
(* Model of the blocking AO3 client: get_page (the response-classification *)
(* state machine) and get_init_page (pagination discovery, the parallel    *)
(* URL synthesis and the sequential aggregation loop).                     *)
(*                                                                         *)
(* Text is modelled as a sequence of one-character strings, so that        *)
(* str::contains, str::starts_with, str::parse and the page-number regex   *)
(* are computed character by character as the library computes them.      *)
(* Option<T> is a sequence of length 0 (None) or 1 (Some).                 *)
(***************************************************************************)
EXTENDS Integers, Sequences, FiniteSets, TLC

(***************************************************************************)
(* Bounds of the model.                                                    *)
(***************************************************************************)
\* Largest final-page number a first page's pagination nav points to.
MaxLastPage == 3
\* Number of redirect or transient responses the server gives in one run.
MaxDetours == 2
\* Number of requests followed in a run against a server that redirects
\* without end.
MaxRequests == 10

(***************************************************************************)
(* Text helpers.                                                           *)
(***************************************************************************)
None == <<>>
Some(x) == <<x>>

\* The digits str::parse accepts.
AsciiDigits == {"0", "1", "2", "3", "4", "5", "6", "7", "8", "9"}

\* Decimal digits outside ASCII (representatives): ARABIC-INDIC DIGIT THREE,
\* FULLWIDTH DIGIT THREE, DEVANAGARI DIGIT ONE.
ArabicThree == "U+0663"
FullwidthThree == "U+FF13"
DevanagariOne == "U+0967"

\* The class \d of the regex, which is Unicode-aware: every decimal digit.
Digits == AsciiDigits \cup {ArabicThree, FullwidthThree, DevanagariOne}

DigitVal(c) ==
  CASE c = "0" -> 0 [] c = "1" -> 1 [] c = "2" -> 2 [] c = "3" -> 3
    [] c = "4" -> 4 [] c = "5" -> 5 [] c = "6" -> 6 [] c = "7" -> 7
    [] c = "8" -> 8 [] c = "9" -> 9

DigitChar(d) ==
  CASE d = 0 -> "0" [] d = 1 -> "1" [] d = 2 -> "2" [] d = 3 -> "3"
    [] d = 4 -> "4" [] d = 5 -> "5" [] d = 6 -> "6" [] d = 7 -> "7"
    [] d = 8 -> "8" [] d = 9 -> "9"

\* A byte outside visible ASCII, as a header value may carry.
NonAscii == "\\xE9"

\* str::starts_with
StartsWith(s, p) ==
  /\ Len(p) <= Len(s)
  /\ SubSeq(s, 1, Len(p)) = p

\* str::contains
Contains(s, p) ==
  \E k \in 0..(Len(s) - Len(p)) : SubSeq(s, k + 1, k + Len(p)) = p

\* Value of a non-empty run of decimal digits.
RECURSIVE DigitsValue(_)
DigitsValue(s) ==
  IF s = <<>> THEN 0
  ELSE 10 * DigitsValue(SubSeq(s, 1, Len(s) - 1)) + DigitVal(s[Len(s)])

AllDigits(s) == \A k \in 1..Len(s) : s[k] \in AsciiDigits

\* Leading zeros removed.
RECURSIVE StripZeros(_)
StripZeros(s) ==
  IF Len(s) > 1 /\ s[1] = "0" THEN StripZeros(Tail(s)) ELSE s

\* a <= b for two digit runs of the same length.
RECURSIVE DigitsLeq(_, _)
DigitsLeq(a, b) ==
  IF a = <<>> THEN TRUE
  ELSE IF DigitVal(a[1]) # DigitVal(b[1]) THEN DigitVal(a[1]) < DigitVal(b[1])
  ELSE DigitsLeq(Tail(a), Tail(b))

\* The digit run s, read as a number, exceeds the digit run max.
Exceeds(s, max) ==
  LET t == StripZeros(s)
  IN Len(t) > Len(max) \/ (Len(t) = Len(max) /\ ~DigitsLeq(t, max))

I32MaxDigits == <<"2", "1", "4", "7", "4", "8", "3", "6", "4", "7">>
I32MinDigits == <<"2", "1", "4", "7", "4", "8", "3", "6", "4", "8">>
U64MaxDigits == <<"1", "8", "4", "4", "6", "7", "4", "4", "0", "7", "3", "7",
                  "0", "9", "5", "5", "1", "6", "1", "5">>

\* str::parse::<i32>: optional sign, at least one digit, no overflow.
ParseI32(s) ==
  LET signed == Len(s) > 1 /\ s[1] \in {"+", "-"}
      body == IF signed THEN Tail(s) ELSE s
      neg == signed /\ s[1] = "-"
  IN IF body = <<>> \/ ~AllDigits(body) THEN None
     ELSE IF Exceeds(body, IF neg THEN I32MinDigits ELSE I32MaxDigits) THEN None
     ELSE IF neg THEN Some(0 - DigitsValue(body))
     ELSE Some(DigitsValue(body))

\* str::parse::<u64>: optional '+', at least one digit, no overflow.
ParseU64(s) ==
  LET signed == Len(s) > 1 /\ s[1] = "+"
      body == IF signed THEN Tail(s) ELSE s
  IN IF body = <<>> \/ ~AllDigits(body) THEN None
     ELSE IF Exceeds(body, U64MaxDigits) THEN None
     ELSE Some(DigitsValue(body))

\* i32::to_string of a non-negative number.
RECURSIVE to_string(_)
to_string(i) ==
  IF i < 10 THEN <<DigitChar(i)>>
  ELSE Append(to_string(i \div 10), DigitChar(i % 10))

(***************************************************************************)
(* PAGE_NUM_REGEX: multi-line mode, one group of zero or more decimal      *)
(* digits, anchored at an end of line.                                     *)
(* A position p in 0..Len(s) lies between s[p] and s[p+1].                 *)
(***************************************************************************)
\* `$` in multi-line mode: end of text or just before a line feed.
EndOfLine(s, p) == p = Len(s) \/ s[p + 1] = "\n"

\* End of the greedy \d* started at position p.
RECURSIVE DigitRunEnd(_, _)
DigitRunEnd(s, p) ==
  IF p < Len(s) /\ s[p + 1] \in Digits THEN DigitRunEnd(s, p + 1) ELSE p

\* Leftmost match starting at or after `from`: <<start, end>>, or None when
\* from is past the end of the text.
RECURSIVE FindFrom(_, _)
FindFrom(s, from) ==
  IF from > Len(s) THEN None
  ELSE LET e == DigitRunEnd(s, from)
       IN IF EndOfLine(s, e) THEN Some(<<from, e>>)
          ELSE FindFrom(s, from + 1)

\* The match iterator's next item: an empty match that ends where the
\* previous match ended is skipped by restarting one position further.
NextMatch(s, from, lastEnd) ==
  LET m == FindFrom(s, from)
  IN IF m # None /\ m[1][1] = m[1][2] /\ lastEnd = Some(m[1][2])
     THEN FindFrom(s, from + 1)
     ELSE m

\* captures_iter(s).next().unwrap().get(1).unwrap().as_str()
FirstCapture(s) ==
  LET m == NextMatch(s, 0, None)[1]
  IN SubSeq(s, m[1] + 1, m[2])

\* Regex::replace_all(s, rep)
RECURSIVE ReplaceFrom(_, _, _, _)
ReplaceFrom(s, from, lastEnd, rep) ==
  LET m == NextMatch(s, from, lastEnd)
      copied == IF lastEnd = None THEN 0 ELSE lastEnd[1]
  IN IF m = None THEN SubSeq(s, copied + 1, Len(s))
     ELSE SubSeq(s, copied + 1, m[1][1]) \o rep
            \o ReplaceFrom(s, m[1][2], Some(m[1][2]), rep)

ReplaceAll(s, rep) == ReplaceFrom(s, 0, None, rep)

(***************************************************************************)
(* Texts of the program and of the modelled site.                          *)
(***************************************************************************)
\* "https://archiveofourown.org"
BaseOrigin ==
  <<"h", "t", "t", "p", "s", ":", "/", "/", "a", "r", "c", "h", "i", "v", "e",
    "o", "f", "o", "u", "r", "o", "w", "n", ".", "o", "r", "g">>
Http == <<"h", "t", "t", "p">>
Login == <<"l", "o", "g", "i", "n">>

\* "/works" and "/users/login", paths of the site
WorksPath == <<"/", "w", "o", "r", "k", "s">>
LoginPath == <<"/", "u", "s", "e", "r", "s", "/">> \o Login
PageQuery == <<"?", "p", "a", "g", "e", "=">>

\* href of the listing's page n, as the site writes it: "/works?page=n"
Href(n) == WorksPath \o PageQuery \o to_string(n)

(***************************************************************************)
(* Responses.  Header names are stored in lower case, as the header map    *)
(* stores them; a header value is a byte text.                             *)
(***************************************************************************)
HeaderNames == {"location", "retry-after", "retry_after"}

\* Header-name normalisation of a lookup key (case folding only).
LowerName(name) ==
  CASE name = "Retry_After" -> "retry_after"
    [] name = "Retry-After" -> "retry-after"
    [] name = "Location" -> "location"
    [] OTHER -> name

\* HeaderMap::get
HeaderGet(headers, name) == headers[LowerName(name)]

\* A conversion that accepts every byte text.
ToStr_Lossy(v) == Some(v)

\* HeaderValue::to_str: Ok only for visible ASCII.
ToStr(v) == IF \E k \in 1..Len(v) : v[k] = NonAscii THEN None ELSE Some(v)

NoHeaders == [h \in HeaderNames |-> None]

\* Location values the server may send.
LocationValues ==
  { Href(2),                                  \* relative
    BaseOrigin \o WorksPath,                  \* absolute
    LoginPath,                                \* relative, a login page
    BaseOrigin \o LoginPath,                  \* absolute, a login page
    WorksPath \o <<NonAscii>> }               \* not convertible to text

\* Retry header values the server may send.
RetryValues == { <<"3", "0">>, <<"s", "o", "o", "n">> }

(***************************************************************************)
(* A body text is a sequence of chunks; a page the site serves is one      *)
(* chunk that records the URL it was served at and its pagination navs.    *)
(* Concatenating texts (push_str) is \o.                                   *)
(***************************************************************************)
PageText(u, navs) == <<[kind |-> "page", src |-> u, navs |-> navs]>>
BusyText(b) ==
  <<[kind |-> b, src |-> <<>>, navs |-> <<>>],
    [kind |-> "busy-end", src |-> <<>>, navs |-> <<>>]>>
EmptyText == <<>>

\* Texts of the bodies of transient responses.
BusyBodies == {"busy-1", "busy-2"}

StatusOk == 200
StatusFound == 302
StatusMovedPermanently == 301
TransientStatuses == {503, 408, 429, 525, 502, 524}
\* Statuses the program has no arm for (representatives).
OtherStatuses == {404, 500, 307}

RedirectResponses ==
  { [status |-> st, headers |-> [NoHeaders EXCEPT !["location"] = loc],
     body |-> EmptyText, textOk |-> TRUE] :
      st \in {StatusFound, StatusMovedPermanently},
      loc \in {None} \cup {Some(v) : v \in LocationValues} }

RetryHeaderMaps ==
  { NoHeaders,
    [NoHeaders EXCEPT !["retry-after"] = Some(<<"7">>)],
    [NoHeaders EXCEPT !["retry-after"] = Some(<<"s", "o", "o", "n">>)] }
    \cup { [NoHeaders EXCEPT !["retry_after"] = Some(v)] : v \in RetryValues }

TransientResponses ==
  { [status |-> st, headers |-> h, body |-> BusyText(b), textOk |-> TRUE] :
      st \in TransientStatuses, h \in RetryHeaderMaps, b \in BusyBodies }
    \cup { [status |-> st, headers |-> NoHeaders, body |-> EmptyText,
            textOk |-> FALSE] : st \in TransientStatuses }

OtherResponses ==
  { [status |-> st, headers |-> NoHeaders, body |-> EmptyText, textOk |-> TRUE] :
      st \in OtherStatuses }

OkResponses(u, navs) ==
  { [status |-> StatusOk, headers |-> NoHeaders, body |-> PageText(u, navs),
     textOk |-> ok] : ok \in BOOLEAN }

NoResponse ==
  [status |-> 0, headers |-> NoHeaders, body |-> EmptyText, textOk |-> FALSE]

(***************************************************************************)
(* First pages of the modelled site: the pagination navs of the page, each *)
(* nav a sequence of links, each link an a tag with its href and the title *)
(* attribute of its parent element.                                        *)
(***************************************************************************)
Link(href) == [href |-> Some(href), partitle |-> None]
NextLink(href) == [href |-> Some(href), partitle |-> Some("next")]

\* The nav of a listing whose last page is n.
NavTo(n) == <<Link(Href(2)), Link(Href(n)), NextLink(Href(2))>>

Sites ==
  { <<>> }                                       \* no pagination nav
    \cup { <<NavTo(n)>> : n \in 1..MaxLastPage }
    \cup { <<NavTo(2), NavTo(MaxLastPage)>> }    \* a top and a bottom nav
    \cup { << <<Link(Href(2)), Link(WorksPath)>> >> }   \* no trailing digits
    \cup { << <<NextLink(Href(2))>> >> }         \* only a "next" link
    \cup { << <<Link(Href(1)), Link(Href(2)), NextLink(Href(3))>>,
              NavTo(1) >> }                      \* "next" points further
    \cup { << <<Link(WorksPath \o PageQuery \o <<d, "3">>)>> >> :
              d \in {ArabicThree, FullwidthThree} }   \* a non-ASCII digit

\* URLs get_init_page is called with.
Pages == { BaseOrigin \o WorksPath }

(***************************************************************************)
(* State.                                                                  *)
(***************************************************************************)
VARIABLES
  page,       \* argument of get_init_page
  site,       \* pagination navs of the pages the site serves
  pc,         \* get_init_page: "first", "fanout", "aggregate", "done", "panic"
  phase,      \* get_page: "send", "await", "ret", "idle", "panic"
  url,        \* argument of the innermost get_page call
  nreq,       \* number of requests sent
  detours,    \* number of redirect and transient responses received
  resp,       \* the response the last request received
  slept,      \* the sleeps (seconds) of the step just taken
  err,        \* the panic message, "" when none
  debugFile,  \* content of output/debug.html, None when never written
  effects,    \* the write and the sleep of the transient arm, in the order done
  pager,      \* the chosen final-page link
  wpc,        \* the parallel workers: index -> "start", "locked", "done"
  lock,       \* holder of the mutex of finalvec, None when free
  finalvec,   \* the list the workers push into
  idx,        \* position of the aggregation loop in finalvec
  finalpage,  \* the accumulated text
  result,     \* the document get_init_page returns, None before
  inflight,   \* requests sent whose send() has not returned yet
  sinceOk,    \* seconds slept since the last 200 arrived, None before one
  posts,      \* bodies of the login POSTs sent, in order
  token       \* the token get_token returned, None before

vars ==
  <<page, site, pc, phase, url, nreq, detours, resp, slept, err, debugFile,
    effects, pager, wpc, lock, finalvec, idx, finalpage, result, inflight,
    sinceOk, posts, token>>

loginVars == <<posts, token>>

planVars == <<pager, wpc, lock, finalvec, idx, finalpage, result>>

Init ==
  /\ page \in Pages
  /\ site \in Sites
  /\ pc = "first"
  /\ phase = "send"
  /\ url = page
  /\ nreq = 0
  /\ detours = 0
  /\ resp = NoResponse
  /\ slept = <<>>
  /\ err = ""
  /\ debugFile = None
  /\ effects = <<>>
  /\ pager = <<>>
  /\ wpc = <<>>
  /\ lock = None
  /\ finalvec = <<>>
  /\ idx = 0
  /\ finalpage = EmptyText
  /\ result = None
  /\ inflight = 0
  /\ sinceOk = None
  /\ posts = <<>>
  /\ token = None

(***************************************************************************)
(* get_page                                                                *)
(***************************************************************************)
\* Classify with every server error retried.
Classify_RetriesServerErrors(status, u) ==
  IF (status = StatusFound \/ status = StatusMovedPermanently)
       /\ ~Contains(u, Login)
  THEN "redirect"
  ELSE IF status \in TransientStatuses \/ status >= 500 THEN "transient"
  ELSE IF status = StatusOk THEN "ok"
  ELSE "fatal"

\* Classify with a last arm that returns the response.
Classify_ReturnsUnknown(status, u) ==
  IF (status = StatusFound \/ status = StatusMovedPermanently)
       /\ ~Contains(u, Login)
  THEN "redirect"
  ELSE IF status \in TransientStatuses THEN "transient"
  ELSE "ok"

\* Classify with a redirect arm that has no guard on the URL.
Classify_NoLoginGuard(status, u) ==
  IF status = StatusFound \/ status = StatusMovedPermanently
  THEN "redirect"
  ELSE IF status \in TransientStatuses THEN "transient"
  ELSE IF status = StatusOk THEN "ok"
  ELSE "fatal"

\* The arm of the match on the response status, in source order.
Classify(status, u) ==
  IF (status = StatusFound \/ status = StatusMovedPermanently)
       /\ ~Contains(u, Login)
  THEN "redirect"
  ELSE IF status \in TransientStatuses THEN "transient"
  ELSE IF status = StatusOk THEN "ok"
  ELSE "fatal"

RedirectSleep == 2
DefaultRetry == 20
Cooldown == 5

\* The URL a followed redirect is requested at.
RedirectUrl(i) == IF StartsWith(i, Http) THEN i ELSE BaseOrigin \o i

\* The header the retry delay is read from.
RetryHeaderName == "Retry_After"

\* The seconds slept before a retry.
RetryTime(headers) ==
  LET h == HeaderGet(headers, RetryHeaderName)
  IN IF h = None THEN DefaultRetry
     ELSE LET t == ToStr(h[1])
          IN IF t = None THEN DefaultRetry
             ELSE LET n == ParseU64(t[1])
                  IN IF n = None THEN DefaultRetry ELSE n[1]

\* The sum of the sleeps of one step.
RECURSIVE SumOf(_)
SumOf(ds) == IF ds = <<>> THEN 0 ELSE ds[1] + SumOf(Tail(ds))

\* The clock saturates once the cooldown and one further sleep have passed.
ClockTop == Cooldown + RedirectSleep

Saturate(n) == IF n > ClockTop THEN ClockTop ELSE n

\* thread::sleep advances the clock, which restarts when a 200 arrives.
Elapse(gotOk) ==
  sinceOk' = IF gotOk THEN Some(Saturate(SumOf(slept')))
             ELSE IF sinceOk = None THEN None
             ELSE Some(Saturate(sinceOk[1] + SumOf(slept')))

\* A failure that is recorded and then passed over by the caller.
Panic_Swallowed(msg) ==
  /\ err' = msg
  /\ phase' = "ret"
  /\ pc' = pc

\* A panic unwinds get_page and its caller.
Panic(msg) ==
  /\ err' = msg
  /\ phase' = "panic"
  /\ pc' = "panic"

\* The responses the server may give to a request for u.
ServerResponses(u) ==
  OkResponses(u, site) \cup OtherResponses
    \cup (IF detours < MaxDetours
          THEN RedirectResponses \cup TransientResponses ELSE {})

\* client.get(url).send(): the request leaves.
Send ==
  /\ phase = "send"
  /\ phase' = "await"
  /\ nreq' = nreq + 1
  /\ resp' = NoResponse
  /\ slept' = <<>>
  /\ effects' = <<>>
  /\ UNCHANGED <<page, site, pc, url, detours, err, debugFile>>
  /\ UNCHANGED planVars
  /\ inflight' = inflight + 1
  /\ Elapse(FALSE)
  /\ UNCHANGED loginVars

\* send() fails: expect("Get request failed").
RecvError ==
  /\ phase = "await"
  /\ Panic("Get request failed")
  /\ slept' = <<>>
  /\ UNCHANGED <<page, site, effects, url, nreq, detours, resp, debugFile>>
  /\ UNCHANGED planVars
  /\ inflight' = inflight - 1
  /\ Elapse(FALSE)
  /\ UNCHANGED loginVars

\* The redirect arm with a ceiling on the redirects followed.
RecvRedirect_Limited(r) ==
  /\ phase = "await"
  /\ Classify(r.status, url) = "redirect"
  /\ resp' = r
  /\ detours' = detours + 1
  /\ IF detours >= 3
     THEN /\ Panic("too many redirects")
          /\ slept' = <<>>
          /\ url' = url
     ELSE /\ slept' = <<RedirectSleep>>
          /\ url' = RedirectUrl(ToStr(HeaderGet(r.headers, "location")[1])[1])
          /\ phase' = "send"
          /\ UNCHANGED <<pc, err>>
  /\ UNCHANGED <<page, site, effects, nreq, debugFile>>
  /\ UNCHANGED planVars
  /\ inflight' = inflight - 1
  /\ Elapse(FALSE)
  /\ UNCHANGED loginVars

\* The redirect arm.
RecvRedirect(r) ==
  /\ phase = "await"
  /\ Classify(r.status, url) = "redirect"
  /\ resp' = r
  /\ detours' = detours + 1
  /\ LET loc == HeaderGet(r.headers, "location")
     IN IF loc = None
        THEN /\ Panic("Getting location value for redirect failed")
             /\ slept' = <<>>
             /\ url' = url
        ELSE IF ToStr(loc[1]) = None
        THEN /\ Panic("Failed to convert location header to string")
             /\ slept' = <<>>
             /\ url' = url
        ELSE /\ slept' = <<RedirectSleep>>
             /\ url' = RedirectUrl(ToStr(loc[1])[1])
             /\ phase' = "send"
             /\ UNCHANGED <<pc, err>>
  /\ UNCHANGED <<page, site, effects, nreq, debugFile>>
  /\ UNCHANGED planVars
  /\ inflight' = inflight - 1
  /\ Elapse(FALSE)
  /\ UNCHANGED loginVars

\* The results of fs::write(path, text): None when File::create fails and
\* the file stays as it was, Some(n) when the file was created, which
\* truncates it, and n pieces of the text were written before write_all
\* ended; the write succeeded when the whole text was written.
Written(text) == {None} \cup { Some(n) : n \in 0..Len(text) }

WriteSucceeded(text, wrote) == wrote = Some(Len(text))

FileAfterWrite(file, text, wrote) ==
  IF wrote = None THEN file ELSE Some(SubSeq(text, 1, wrote[1]))

\* fs::write as the transient arm's log records it.
WriteEffect(text, wrote) ==
  IF WriteSucceeded(text, wrote) THEN "write-ok" ELSE "write-failed"

\* The transient arm sleeping the delay before it writes the file.
RecvTransient_SleepsFirst(r, cwd, wrote) ==
  /\ phase = "await"
  /\ Classify(r.status, url) = "transient"
  /\ resp' = r
  /\ detours' = detours + 1
  /\ IF ~cwd
     THEN /\ Panic("Failed to get current directory")
          /\ slept' = <<>>
          /\ effects' = <<>>
          /\ UNCHANGED debugFile
     ELSE /\ slept' = <<RetryTime(r.headers)>>
          /\ effects' = <<"sleep">> \o
                          (IF r.textOk THEN <<WriteEffect(r.body, wrote)>>
                           ELSE <<>>)
          /\ debugFile' = (IF r.textOk
                           THEN FileAfterWrite(debugFile, r.body, wrote)
                           ELSE debugFile)
          /\ phase' = "send"
          /\ UNCHANGED <<pc, err>>
  /\ UNCHANGED <<page, site, url, nreq>>
  /\ UNCHANGED planVars
  /\ inflight' = inflight - 1
  /\ Elapse(FALSE)
  /\ UNCHANGED loginVars

\* The transient arm, in the order of its statements.  cwd: whether
\* current_dir() succeeds, its failure panics before anything else is
\* done; then the delay is computed; then, when the body can be read,
\* fs::write is called (wrote: its result, which the program drops); then
\* the delay is slept; then the retry is due.
RecvTransient(r, cwd, wrote) ==
  /\ phase = "await"
  /\ Classify(r.status, url) = "transient"
  /\ resp' = r
  /\ detours' = detours + 1
  /\ IF ~cwd
     THEN /\ Panic("Failed to get current directory")
          /\ slept' = <<>>
          /\ effects' = <<>>
          /\ UNCHANGED debugFile
     ELSE /\ debugFile' = (IF r.textOk
                           THEN FileAfterWrite(debugFile, r.body, wrote)
                           ELSE debugFile)
          /\ effects' = (IF r.textOk THEN <<WriteEffect(r.body, wrote)>>
                         ELSE <<>>) \o <<"sleep">>
          /\ slept' = <<RetryTime(r.headers)>>
          /\ phase' = "send"
          /\ UNCHANGED <<pc, err>>
  /\ UNCHANGED <<page, site, url, nreq>>
  /\ UNCHANGED planVars
  /\ inflight' = inflight - 1
  /\ Elapse(FALSE)
  /\ UNCHANGED loginVars

\* The 200 arm returning at once, without the cooldown.
RecvOk_NoCooldown(r) ==
  /\ phase = "await"
  /\ Classify(r.status, url) = "ok"
  /\ resp' = r
  /\ slept' = <<>>
  /\ phase' = "ret"
  /\ UNCHANGED <<page, site, effects, pc, url, nreq, detours, err, debugFile>>
  /\ UNCHANGED planVars
  /\ inflight' = inflight - 1
  /\ Elapse(TRUE)
  /\ UNCHANGED loginVars

\* The 200 arm.
RecvOk(r) ==
  /\ phase = "await"
  /\ Classify(r.status, url) = "ok"
  /\ resp' = r
  /\ slept' = <<Cooldown>>
  /\ phase' = "ret"
  /\ UNCHANGED <<page, site, effects, pc, url, nreq, detours, err, debugFile>>
  /\ UNCHANGED planVars
  /\ inflight' = inflight - 1
  /\ Elapse(TRUE)
  /\ UNCHANGED loginVars

\* The last arm: panic!("Unknown status: {}").
RecvFatal(r) ==
  /\ phase = "await"
  /\ Classify(r.status, url) = "fatal"
  /\ resp' = r
  /\ detours' = IF r \in RedirectResponses THEN detours + 1 ELSE detours
  /\ Panic("Unknown status")
  /\ slept' = <<>>
  /\ UNCHANGED <<page, site, effects, url, nreq, debugFile>>
  /\ UNCHANGED planVars
  /\ inflight' = inflight - 1
  /\ Elapse(FALSE)
  /\ UNCHANGED loginVars

(***************************************************************************)
(* get_init_page                                                           *)
(***************************************************************************)
\* Html::parse_document: the document holds the chunks of its text.
ParseDocument(text) == [chunks |-> text]

\* The accumulator started empty instead of with the first page.
HtmlOf_Empty(doc) == EmptyText

\* Html::html: the text of a document.
HtmlOf(doc) == doc.chunks

\* page1.select(ol[class="pagination actions"]): the navs in document order.
RECURSIVE NavsOf(_)
NavsOf(chunks) ==
  IF chunks = <<>> THEN <<>> ELSE Head(chunks).navs \o NavsOf(Tail(chunks))

SelectNavs(doc) == NavsOf(doc.chunks)

\* A filter that keeps every a tag.
Kept_All(link) == TRUE

\* The filter of the a tags: the parent's title, "LOL" when absent, is not
\* "next".
Kept(link) ==
  (IF link.partitle = None THEN "LOL" ELSE link.partitle[1]) # "next"

\* vec: the hrefs of the kept links, in document order.
RECURSIVE HrefsOf(_)
HrefsOf(links) ==
  IF links = <<>> THEN <<>>
  ELSE IF Kept(Head(links)) THEN <<Head(links).href[1]>> \o HrefsOf(Tail(links))
  ELSE HrefsOf(Tail(links))

\* A kept link has no href: expect("Failed to get atag href").
MissingHref(links) ==
  \E k \in 1..Len(links) : Kept(links[k]) /\ links[k].href = None

\* vec.last()
Pager(vec) == vec[Len(vec)]

\* numlist: the range 1..lastpage, its end excluded.
NumList(lastpage) == { i \in 1..lastpage : i < lastpage }

\* The URL a worker pushes for index i.
PageUrl(pg, i) == ReplaceAll(pg, to_string(i))

\* format!("https://archiveofourown.org/{}", i)
PlanUrl(i) == BaseOrigin \o <<"/">> \o i

Main == [who |-> "main", i |-> 0]
Worker(i) == [who |-> "worker", i |-> i]

\* get_page returned the first page: parse it, look for the nav, choose the
\* final-page link and start the parallel synthesis.
Discover ==
  /\ pc = "first"
  /\ phase = "ret"
  /\ slept' = <<>>
  /\ IF ~resp.textOk
     THEN /\ Panic("failed to get fic page text")
          /\ UNCHANGED planVars
     ELSE LET page1 == ParseDocument(resp.body)
              nav == SelectNavs(page1)
          IN IF Len(nav) = 0
             THEN /\ finalpage' = HtmlOf(page1)
                  /\ result' = Some(ParseDocument(HtmlOf(page1)))
                  /\ pc' = "done"
                  /\ phase' = "idle"
                  /\ UNCHANGED <<err, pager, wpc, lock, finalvec, idx>>
             ELSE IF MissingHref(nav[1])
             THEN /\ Panic("Failed to get atag href")
                  /\ UNCHANGED planVars
             ELSE IF HrefsOf(nav[1]) = <<>>
             THEN /\ Panic("failed to get final page in vec")
                  /\ UNCHANGED planVars
             ELSE LET pg == Pager(HrefsOf(nav[1]))
                      lastpage == ParseI32(FirstCapture(pg))
                  IN IF lastpage = None
                     THEN /\ Panic("called unwrap on an Err value")
                          /\ UNCHANGED planVars
                     ELSE /\ finalpage' = HtmlOf(page1)
                          /\ pager' = pg
                          /\ wpc' = [i \in NumList(lastpage[1]) |-> "start"]
                          /\ finalvec' = <<>>
                          /\ pc' = "fanout"
                          /\ phase' = "idle"
                          /\ UNCHANGED <<err, lock, idx, result>>
  /\ UNCHANGED <<page, site, effects, url, nreq, detours, resp, debugFile>>
  /\ Elapse(FALSE)
  /\ UNCHANGED <<inflight, posts, token>>

\* A worker of the parallel for_each takes the mutex of finalvec.
WorkerLock(i) ==
  /\ pc = "fanout"
  /\ i \in DOMAIN wpc
  /\ wpc[i] = "start"
  /\ lock = None
  /\ lock' = Some(Worker(i))
  /\ wpc' = [wpc EXCEPT ![i] = "locked"]
  /\ slept' = <<>>
  /\ UNCHANGED <<page, site, effects, pc, phase, url, nreq, detours, resp, err,
                 debugFile, pager, finalvec, idx, finalpage, result>>
  /\ Elapse(FALSE)
  /\ UNCHANGED <<inflight, posts, token>>

\* A worker that fetches its page itself before it pushes the URL.
WorkerPush_Fetches(i) ==
  /\ pc = "fanout"
  /\ i \in DOMAIN wpc
  /\ wpc[i] = "locked"
  /\ finalvec' = Append(finalvec, PageUrl(pager, i))
  /\ lock' = None
  /\ wpc' = [wpc EXCEPT ![i] = "done"]
  /\ slept' = <<>>
  /\ nreq' = nreq + 1
  /\ inflight' = inflight + 1
  /\ Elapse(FALSE)
  /\ UNCHANGED <<page, site, effects, pc, phase, url, detours, resp, err,
                 debugFile, pager, idx, finalpage, result, posts, token>>

\* The worker pushes its URL and drops the guard.
WorkerPush(i) ==
  /\ pc = "fanout"
  /\ i \in DOMAIN wpc
  /\ wpc[i] = "locked"
  /\ finalvec' = Append(finalvec, PageUrl(pager, i))
  /\ lock' = None
  /\ wpc' = [wpc EXCEPT ![i] = "done"]
  /\ slept' = <<>>
  /\ UNCHANGED <<page, site, effects, pc, phase, url, nreq, detours, resp, err,
                 debugFile, pager, idx, finalpage, result>>
  /\ Elapse(FALSE)
  /\ UNCHANGED <<inflight, posts, token>>

\* The loop reaches position k of finalvec: past the end it returns the
\* parsed accumulated text, otherwise it calls get_page for that entry.
LoopAt(k, text) ==
  IF k > Len(finalvec)
  THEN /\ result' = Some(ParseDocument(text))
       /\ lock' = None
       /\ pc' = "done"
       /\ phase' = "idle"
       /\ UNCHANGED <<url, idx>>
  ELSE /\ idx' = k
       /\ url' = PlanUrl(finalvec[k])
       /\ phase' = "send"
       /\ pc' = "aggregate"
       /\ lock' = Some(Main)
       /\ UNCHANGED result

\* The loop starting without waiting for the workers.
BeginLoop_NoJoin ==
  /\ pc = "fanout"
  /\ lock = None
  /\ LoopAt(1, finalpage)
  /\ slept' = <<>>
  /\ UNCHANGED <<page, site, effects, nreq, detours, resp, err, debugFile,
                 pager, wpc, finalvec, finalpage>>
  /\ Elapse(FALSE)
  /\ UNCHANGED <<inflight, posts, token>>

\* for_each has returned (every worker is done): the loop locks finalvec
\* and starts.
BeginLoop ==
  /\ pc = "fanout"
  /\ \A i \in DOMAIN wpc : wpc[i] = "done"
  /\ lock = None
  /\ LoopAt(1, finalpage)
  /\ slept' = <<>>
  /\ UNCHANGED <<page, site, effects, nreq, detours, resp, err, debugFile, pager, wpc,
                 finalvec, finalpage>>
  /\ Elapse(FALSE)
  /\ UNCHANGED <<inflight, posts, token>>

\* get_page returned a page of the plan: append its text and go on.
AppendPage ==
  /\ pc = "aggregate"
  /\ phase = "ret"
  /\ slept' = <<>>
  /\ IF ~resp.textOk
     THEN /\ Panic("Converting page to text failed")
          /\ UNCHANGED <<url, idx, finalpage, lock, result>>
     ELSE /\ finalpage' = finalpage \o resp.body
          /\ LoopAt(idx + 1, finalpage \o resp.body)
          /\ UNCHANGED err
  /\ UNCHANGED <<page, site, effects, nreq, detours, resp, debugFile, pager, wpc,
                 finalvec>>
  /\ Elapse(FALSE)
  /\ UNCHANGED <<inflight, posts, token>>

Next ==
  \/ Send
  \/ RecvError
  \/ \E r \in ServerResponses(url) : RecvRedirect(r)
  \/ \E r \in ServerResponses(url) :
       \E cwd \in BOOLEAN, wrote \in Written(r.body) :
         RecvTransient(r, cwd, wrote)
  \/ \E r \in ServerResponses(url) : RecvOk(r)
  \/ \E r \in ServerResponses(url) : RecvFatal(r)
  \/ Discover
  \/ \E i \in DOMAIN wpc : WorkerLock(i)
  \/ \E i \in DOMAIN wpc : WorkerPush(i)
  \/ BeginLoop
  \/ AppendPage

Spec == Init /\ [][Next]_vars

(***************************************************************************)
(* get_page against a server whose redirects oscillate: each URL of a ring *)
(* redirects to the other one, once with a relative and once with an       *)
(* absolute Location.                                                      *)
(***************************************************************************)
OscRings ==
  { <<BaseOrigin \o WorksPath, BaseOrigin \o Href(2)>>,
    <<BaseOrigin \o Href(1), BaseOrigin \o Href(3)>> }

OscUrls == { ring[k] : ring \in OscRings, k \in {1, 2} }

\* The Location the server answers a request for u with.
OscLocation(u) ==
  LET ring == CHOOSE g \in OscRings : u \in {g[1], g[2]}
  IN IF u = ring[1]
     THEN SubSeq(ring[2], Len(BaseOrigin) + 1, Len(ring[2]))
     ELSE ring[1]

OscResponses(u) ==
  { [status |-> st,
     headers |-> [NoHeaders EXCEPT !["location"] = Some(OscLocation(u))],
     body |-> EmptyText, textOk |-> TRUE] :
      st \in {StatusFound, StatusMovedPermanently} }

OscInit ==
  /\ page \in OscUrls
  /\ site = <<>>
  /\ pc = "first"
  /\ phase = "send"
  /\ url = page
  /\ nreq = 0
  /\ detours = 0
  /\ resp = NoResponse
  /\ slept = <<>>
  /\ err = ""
  /\ debugFile = None
  /\ effects = <<>>
  /\ pager = <<>>
  /\ wpc = <<>>
  /\ lock = None
  /\ finalvec = <<>>
  /\ idx = 0
  /\ finalpage = EmptyText
  /\ result = None
  /\ inflight = 0
  /\ sinceOk = None
  /\ posts = <<>>
  /\ token = None

\* The run is followed for MaxRequests requests.
OscNext ==
  \/ (nreq < MaxRequests /\ Send)
  \/ \E r \in OscResponses(url) : RecvRedirect(r)

OscSpec == OscInit /\ [][OscNext]_vars

\* The steps of get_page alone.
GetPageNext ==
  \/ Send
  \/ RecvError
  \/ \E r \in ServerResponses(url) : RecvRedirect(r)
  \/ \E r \in ServerResponses(url) :
       \E cwd \in BOOLEAN, wrote \in Written(r.body) :
         RecvTransient(r, cwd, wrote)
  \/ \E r \in ServerResponses(url) : RecvOk(r)
  \/ \E r \in ServerResponses(url) : RecvFatal(r)

\* One call of get_page, run to its end.  The call is one thread that the
\* operating system keeps running, and every request ends with a response
\* or with the transport's error (the client has a timeout): a step that
\* stays possible is eventually taken.
FairSpec == Init /\ [][GetPageNext]_vars /\ WF_vars(GetPageNext)

(***************************************************************************)
(* login and get_token                                                     *)
(***************************************************************************)
\* "/token_dispenser.json"
TokenPath ==
  <<"/", "t", "o", "k", "e", "n", "_", "d", "i", "s", "p", "e", "n", "s",
    "e", "r", ".", "j", "s", "o", "n">>

TokenUrl == BaseOrigin \o TokenPath

\* The pieces of the format string of the login body.
BodyToken ==
  <<"a", "u", "t", "h", "e", "n", "t", "i", "c", "i", "t", "y", "_", "t",
    "o", "k", "e", "n", "=">>
BodyLogin ==
  <<"&", "u", "s", "e", "r", "%", "5", "B", "l", "o", "g", "i", "n", "%",
    "5", "D", "=">>
BodyPassword ==
  <<"&", "u", "s", "e", "r", "%", "5", "B", "p", "a", "s", "s", "w", "o",
    "r", "d", "%", "5", "D", "=">>
BodyCommit ==
  <<"&", "c", "o", "m", "m", "i", "t", "=", "L", "o", "g", "+", "I", "n">>

LoginSleep == 2

\* Tokens the dispenser hands out.
Tokens == { <<"t", "1">>, <<"t", "2">> }

\* Bodies of the dispenser: a JSON object with the token, a JSON object
\* without it, and a page that is no JSON.
TokenText(t) == <<[kind |-> "json", src |-> t, navs |-> <<>>]>>
JsonNoToken == <<[kind |-> "json-empty", src |-> <<>>, navs |-> <<>>]>>

\* serde_json::from_str::<Token>: the token field of a JSON object.
FromStr(text) ==
  IF Len(text) = 1 /\ text[1].kind = "json" THEN Some(text[1].src) ELSE None

\* The login file: None when it cannot be read, otherwise its lines.
UserLine == <<"u", "s", "e", "r">>
PassLine == <<"p", "w">>
LoginFiles ==
  { None, Some(<<>>), Some(<<UserLine>>), Some(<<UserLine, PassLine>>),
    Some(<<UserLine, PassLine, UserLine>>) }

\* get_login_info: the message of the expect that fails, "" when none.
LoginInfoError(file) ==
  IF file = None THEN "failed to read login file"
  ELSE IF Len(file[1]) < 1 THEN "Username not found"
  ELSE IF Len(file[1]) < 2 THEN "Password not found"
  ELSE ""

LoginInfo(file) == [username |-> file[1][1], password |-> file[1][2]]

\* The format! of the request body.
LoginBody(tok, info) ==
  BodyToken \o tok \o BodyLogin \o info.username \o BodyPassword
    \o info.password \o BodyCommit

\* What the server may answer to the request for the token.
TokenResponses ==
  { [status |-> StatusOk, headers |-> NoHeaders, body |-> b, textOk |-> ok] :
      b \in { TokenText(t) : t \in Tokens }
              \cup { JsonNoToken, PageText(TokenUrl, <<>>) },
      ok \in BOOLEAN }
    \cup OtherResponses
    \cup (IF detours < MaxDetours
          THEN RedirectResponses \cup TransientResponses ELSE {})

\* What the server may answer to the POST.
PostResponses ==
  { [status |-> StatusOk, headers |-> NoHeaders, body |-> EmptyText,
     textOk |-> TRUE] }
    \cup OtherResponses \cup RedirectResponses
    \cup { r \in TransientResponses : ~r.textOk }

LoginInit ==
  /\ page = TokenUrl
  /\ site = <<>>
  /\ pc = "token"
  /\ phase = "send"
  /\ url = TokenUrl
  /\ nreq = 0
  /\ detours = 0
  /\ resp = NoResponse
  /\ slept = <<>>
  /\ err = ""
  /\ debugFile = None
  /\ effects = <<>>
  /\ pager = <<>>
  /\ wpc = <<>>
  /\ lock = None
  /\ finalvec = <<>>
  /\ idx = 0
  /\ finalpage = EmptyText
  /\ result = None
  /\ inflight = 0
  /\ sinceOk = None
  /\ posts = <<>>
  /\ token = None

\* get_token after get_page returned: text().unwrap(), from_str().unwrap().
GetToken ==
  /\ pc = "token"
  /\ phase = "ret"
  /\ slept' = <<>>
  /\ IF ~resp.textOk \/ FromStr(resp.body) = None
     THEN /\ Panic("called unwrap on an Err value")
          /\ UNCHANGED token
     ELSE /\ token' = FromStr(resp.body)
          /\ pc' = "login"
          /\ phase' = "idle"
          /\ UNCHANGED err
  /\ Elapse(FALSE)
  /\ UNCHANGED <<page, site, effects, url, nreq, detours, resp, debugFile,
                 inflight, posts>>
  /\ UNCHANGED planVars

\* login after get_token returned: the sleep, get_login_info, the body and
\* the POST handed to the transport.
LoginPost(file) ==
  /\ pc = "login"
  /\ slept' = <<LoginSleep>>
  /\ IF LoginInfoError(file) # ""
     THEN /\ Panic(LoginInfoError(file))
          /\ UNCHANGED <<posts, inflight>>
     ELSE /\ posts' = Append(posts, LoginBody(token[1], LoginInfo(file)))
          /\ inflight' = inflight + 1
          /\ pc' = "posting"
          /\ UNCHANGED <<phase, err>>
  /\ Elapse(FALSE)
  /\ UNCHANGED <<page, site, effects, url, nreq, detours, resp, debugFile,
                 token>>
  /\ UNCHANGED planVars

\* A login that sends the POST again when the answer is no 200.
LoginResult_Retries(r) ==
  /\ pc = "posting"
  /\ resp' = r
  /\ inflight' = inflight - 1
  /\ slept' = <<LoginSleep>>
  /\ pc' = (IF r.status = StatusOk THEN "loggedin" ELSE "login")
  /\ Elapse(FALSE)
  /\ UNCHANGED <<page, site, effects, phase, url, nreq, detours, err,
                 debugFile, posts, token>>
  /\ UNCHANGED planVars

\* send() of the POST returned a response, whatever its status: the sleep
\* and "logged in".
LoginResult(r) ==
  /\ pc = "posting"
  /\ resp' = r
  /\ inflight' = inflight - 1
  /\ slept' = <<LoginSleep>>
  /\ pc' = "loggedin"
  /\ Elapse(FALSE)
  /\ UNCHANGED <<page, site, effects, phase, url, nreq, detours, err,
                 debugFile, posts, token>>
  /\ UNCHANGED planVars

\* send() of the POST failed: expect("Failed to send login request").
LoginSendError ==
  /\ pc = "posting"
  /\ inflight' = inflight - 1
  /\ slept' = <<>>
  /\ Panic("Failed to send login request")
  /\ Elapse(FALSE)
  /\ UNCHANGED <<page, site, effects, url, nreq, detours, resp, debugFile,
                 posts, token>>
  /\ UNCHANGED planVars

LoginNext ==
  \/ Send
  \/ RecvError
  \/ \E r \in TokenResponses : RecvRedirect(r)
  \/ \E r \in TokenResponses :
       \E cwd \in BOOLEAN, wrote \in Written(r.body) :
         RecvTransient(r, cwd, wrote)
  \/ \E r \in TokenResponses : RecvOk(r)
  \/ \E r \in TokenResponses : RecvFatal(r)
  \/ GetToken
  \/ \E file \in LoginFiles : LoginPost(file)
  \/ \E r \in PostResponses : LoginResult(r)
  \/ LoginSendError

LoginSpec == LoginInit /\ [][LoginNext]_vars

(***************************************************************************)
(* Vocabulary of the properties.                                           *)
(***************************************************************************)
\* The step receives a response to the request in flight.
Received == phase = "await" /\ resp' # NoResponse

\* The statuses get_page has an arm for.
KnownStatuses ==
  {StatusOk, StatusFound, StatusMovedPermanently} \cup TransientStatuses

\* The trailing page index of a URL, None when it has none.
PageIndexOf(u) == ParseI32(FirstCapture(u))

\* The URL without its trailing page index.
StemOf(u) == SubSeq(u, 1, Len(u) - Len(FirstCapture(u)))

\* The parallel synthesis has finished and the loop has started or ended.
PlanBuilt == pc \in {"aggregate", "done"} /\ pager # <<>>

\* The plan entries whose bodies the loop has appended, in append order.
Appended == SubSeq(finalvec, 1, Len(finalpage) - 1)

(***************************************************************************)
(* C1: for a paginated first page, the bodies appended to the aggregated   *)
(* document appear in increasing page-index order, whatever the            *)
(* interleaving of the parallel workers.                                   *)
(* The workers push in the order they take the mutex and the loop appends  *)
(* in list order, so the statement fails.                                  *)
(***************************************************************************)
C1_AppendedInPageOrder ==
  (pc = "done" /\ pager # <<>>) =>
    \A j, k \in 1..Len(Appended) :
      j < k => PageIndexOf(Appended[j])[1] < PageIndexOf(Appended[k])[1]

(***************************************************************************)
(* C2: when the chosen link has trailing page index N, the plan holds one  *)
(* URL for each index 1..N, N included, each differing from the chosen     *)
(* link only in the trailing index, and page N is fetched.                 *)
(* The range 1..N excludes its end, so the URL of page N is never built.   *)
(***************************************************************************)
C2_PlanCoversFinalPage ==
  (pc = "done" /\ pager # <<>>) =>
    \A i \in 1..PageIndexOf(pager)[1] :
      \E k \in 1..Len(Appended) : Appended[k] = StemOf(pager) \o to_string(i)

(***************************************************************************)
(* C3: on a response with a transient status get_page does not return and  *)
(* does not abort: its next request goes to the URL that received the      *)
(* response, however many redirects and retries came before.               *)
(* As stated this fails: when current_dir() fails the transient arm panics *)
(* before the retry.                                                       *)
(***************************************************************************)
C3_TransientRetriesSameUrl ==
  [][ (Received /\ resp'.status \in TransientStatuses) =>
        /\ phase' = "send"
        /\ url' = url
        /\ pc' = pc
        /\ err' = ""
        /\ result' = result ]_vars

(***************************************************************************)
(* C4: the delay slept before a retry is the value of the response's       *)
(* Retry-After header when it is present and parses as seconds, and 20     *)
(* seconds otherwise.                                                      *)
(* The program looks the header up under the name Retry_After, so a        *)
(* Retry-After header is never read.                                       *)
(***************************************************************************)
C4_ClaimedDelay(headers) ==
  LET h == HeaderGet(headers, "Retry-After")
  IN IF h = None \/ ToStr(h[1]) = None \/ ParseU64(h[1]) = None
     THEN 20
     ELSE ParseU64(h[1])[1]

C4_DelayFromRetryAfter ==
  [][ (Received /\ resp'.status \in TransientStatuses) =>
        slept' = <<C4_ClaimedDelay(resp'.headers)>> ]_vars

(***************************************************************************)
(* C5: a 302 or 301 response whose Location does not contain "login" is    *)
(* followed after a 2-second sleep, at the Location itself when absolute   *)
(* and at the Location under the base origin otherwise.                    *)
(* The program tests the requested URL for "login", not the Location, so   *)
(* such a response to a request for a login URL is not followed.           *)
(***************************************************************************)
C5_LocationText(r) ==
  LET loc == HeaderGet(r.headers, "Location")
  IN IF loc = None THEN None ELSE ToStr(loc[1])

C5_Resolved(loc) ==
  IF StartsWith(loc, Http \o <<"s", ":", "/", "/">>)
       \/ StartsWith(loc, Http \o <<":", "/", "/">>)
  THEN loc
  ELSE BaseOrigin \o loc

C5_RedirectFollowed ==
  [][ ( /\ Received
        /\ resp'.status \in {StatusFound, StatusMovedPermanently}
        /\ C5_LocationText(resp') # None
        /\ ~Contains(C5_LocationText(resp')[1], Login) ) =>
        /\ phase' = "send"
        /\ slept' = <<2>>
        /\ url' = C5_Resolved(C5_LocationText(resp')[1]) ]_vars

(***************************************************************************)
(* C6: a 302 or 301 response whose Location contains "login" is terminal:  *)
(* no further request is issued, whatever URL was requested.               *)
(* The program follows it whenever the requested URL has no "login".       *)
(***************************************************************************)
C6_LoginRedirectTerminal ==
  [][ ( /\ Received
        /\ resp'.status \in {StatusFound, StatusMovedPermanently}
        /\ C5_LocationText(resp') # None
        /\ Contains(C5_LocationText(resp')[1], Login) ) =>
        phase' # "send" ]_vars

(***************************************************************************)
(* C7: a response whose status is outside 200, 301, 302 and the transient  *)
(* set is fatal: get_page aborts without a sleep, without a further        *)
(* request and without returning a body, and nothing runs after the abort. *)
(***************************************************************************)
C7_UnknownStatusFatal ==
  [][ /\ phase # "panic"
      /\ (Received /\ resp'.status \notin KnownStatuses) =>
           /\ phase' = "panic"
           /\ pc' = "panic"
           /\ err' = "Unknown status"
           /\ slept' = <<>>
           /\ nreq' = nreq
           /\ url' = url
           /\ finalpage' = finalpage
           /\ result' = None ]_vars

\* An unknown status ends a fetch that had been retried or redirected.
C7_Witness ==
  /\ phase = "panic"
  /\ resp.status \in OtherStatuses
  /\ nreq >= 2

(***************************************************************************)
(* C8: when the first page has no pagination nav, get_init_page builds an  *)
(* empty plan, sends no request after the first page's fetch and returns   *)
(* a document whose content is the first page's body alone.                *)
(***************************************************************************)
C8_NoNavSinglePage ==
  [][ /\ pc # "done"
      /\ (pc = "first" /\ phase = "ret" /\ resp.textOk
            /\ NavsOf(resp.body) = <<>>) =>
           /\ pc' = "done"
           /\ phase' = "idle"
           /\ nreq' = nreq
           /\ finalvec' = <<>>
           /\ wpc' = <<>>
           /\ result' = Some([chunks |-> resp.body]) ]_vars

\* A first page without nav, fetched after a detour, has been returned.
C8_Witness ==
  /\ pc = "done"
  /\ site = <<>>
  /\ result # None
  /\ Len(result[1].chunks) = 1
  /\ nreq >= 2

(***************************************************************************)
(* C9: the plan construction is deterministic: the same first page yields  *)
(* the same sequence of page URLs for every scheduling of the workers.     *)
(* Stated on one run: the plan a run builds is the plan the in-index-order *)
(* schedule builds from the same chosen link, which is what every run must *)
(* build if all runs build the same.  The push order is the order in which *)
(* the workers take the mutex, so the statement fails.                     *)
(***************************************************************************)
RECURSIVE C9_InOrderPlan(_, _, _)
C9_InOrderPlan(pg, i, n) ==
  IF i >= n THEN <<>>
  ELSE <<ReplaceAll(pg, to_string(i))>> \o C9_InOrderPlan(pg, i + 1, n)

C9_PlanDeterministic ==
  PlanBuilt => finalvec = C9_InOrderPlan(pager, 1, PageIndexOf(pager)[1])

(***************************************************************************)
(* C10: aggregation is all-or-nothing: a fatal outcome of any fetch leaves *)
(* get_init_page without a returned document and without any further       *)
(* request, and a returned document holds the first page and one body for  *)
(* every entry of the plan.                                                *)
(***************************************************************************)
C10_AllOrNothing ==
  [][ /\ pc # "panic"
      /\ pc' = "panic" => (result' = None /\ nreq' = nreq /\ phase' = "panic")
      /\ result' # None =>
           (pc' = "done" /\ Len(result'[1].chunks) = 1 + Len(finalvec')) ]_vars

\* A fatal status on a page of the plan, with the first page already
\* accumulated and a page still to fetch.
C10_Witness ==
  /\ pc = "panic"
  /\ err = "Unknown status"
  /\ idx >= 1
  /\ Len(finalpage) = idx
  /\ idx < Len(finalvec)
  /\ result = None

(***************************************************************************)
(* C11: a pagination-parse error degrades to a single-page result: when a  *)
(* nav is present but its chosen link has no trailing number, or the nav   *)
(* has no usable link, get_init_page returns the first page alone and does *)
(* not abort.                                                              *)
(* The program unwraps the missing link and the failed parse, so it        *)
(* panics.                                                                 *)
(***************************************************************************)
C11_ParseError(nav) ==
  LET usable == { k \in 1..Len(nav) :
                    nav[k].partitle # Some("next") /\ nav[k].href # None }
  IN \/ usable = {}
     \/ LET last == CHOOSE k \in usable : \A j \in usable : j <= k
        IN PageIndexOf(nav[last].href[1]) = None

C11_ParseErrorDegrades ==
  [][ ( /\ pc = "first"
        /\ phase = "ret"
        /\ resp.textOk
        /\ NavsOf(resp.body) # <<>>
        /\ C11_ParseError(NavsOf(resp.body)[1]) ) =>
        /\ pc' = "done"
        /\ err' = ""
        /\ result' = Some([chunks |-> resp.body]) ]_vars

(***************************************************************************)
(* C12: in the document returned for an N-page resource every page 1..N    *)
(* contributes its body exactly once; the first page, already fetched, is  *)
(* neither requested nor appended a second time.                           *)
(* The plan starts at index 1, so the first page is fetched and appended   *)
(* again (and, the range end being excluded, page N not at all).           *)
(***************************************************************************)
C12_TimesInDocument(i) ==
  (IF i = 1 THEN 1 ELSE 0)
    + Cardinality({ k \in 1..Len(Appended) : PageIndexOf(Appended[k]) = Some(i) })

C12_EachPageOnce ==
  (pc = "done" /\ pager # <<>>) =>
    \A i \in 1..PageIndexOf(pager)[1] : C12_TimesInDocument(i) = 1

(***************************************************************************)
(* C13: on a 200 response get_page sleeps the 5-second cooldown and then   *)
(* returns that response without a further request; get_page never         *)
(* returns a response otherwise.                                           *)
(***************************************************************************)
C13_OkCooldownThenReturn ==
  [][ /\ (Received /\ resp'.status = 200) =>
           /\ phase' = "ret"
           /\ slept' = <<5>>
           /\ nreq' = nreq
           /\ url' = url
           /\ err' = ""
      /\ (phase # "ret" /\ phase' = "ret") =>
           /\ Received
           /\ resp'.status = 200
           /\ slept' = <<5>>
      /\ phase = "ret" => (phase' # "await" /\ resp' = resp) ]_vars

\* A 200 response to a page of the plan has been returned after a detour.
C13_Witness ==
  /\ phase = "ret"
  /\ pc = "aggregate"
  /\ resp.status = 200
  /\ slept = <<5>>
  /\ detours >= 1

(***************************************************************************)
(* C14: a 301 or 302 response to a request whose URL has no "login" and    *)
(* whose Location header is missing or not convertible to text is fatal:   *)
(* no further request is sent and no body is returned.                     *)
(***************************************************************************)
C14_BadLocation(r) ==
  \/ r.headers["location"] = None
  \/ \E k \in 1..Len(r.headers["location"][1]) :
       r.headers["location"][1][k] = NonAscii

C14_BadLocationFatal ==
  [][ /\ phase # "panic"
      /\ ( /\ Received
           /\ resp'.status \in {301, 302}
           /\ ~Contains(url, Login)
           /\ C14_BadLocation(resp') ) =>
           /\ phase' = "panic"
           /\ pc' = "panic"
           /\ err' # ""
           /\ slept' = <<>>
           /\ nreq' = nreq
           /\ url' = url
           /\ result' = None ]_vars

\* A redirect with a Location that is no text has aborted the fetch.
C14_Witness ==
  /\ phase = "panic"
  /\ err = "Failed to convert location header to string"
  /\ resp.status \in {301, 302}
  /\ resp.headers["location"] # None

(***************************************************************************)
(* C15: a fetch, once started, runs until success or fatal: when the       *)
(* server gives only finitely many transient and redirect responses,       *)
(* get_page eventually ends, and it ends only by returning a 200 response  *)
(* or by the fatal abort.                                                  *)
(***************************************************************************)
C15_Running == phase \in {"send", "await"}

C15_FetchRunsToSuccessOrFatal ==
  /\ C15_Running ~> (phase \in {"ret", "panic"})
  /\ [][ (C15_Running /\ ~C15_Running') =>
           \/ (phase' = "ret" /\ resp'.status = 200 /\ err' = "")
           \/ (phase' = "panic" /\ pc' = "panic" /\ err' # "") ]_vars

\* A fetch has returned after the server used up its detours.
C15_Witness ==
  /\ phase = "ret"
  /\ detours = MaxDetours
  /\ nreq > MaxDetours

(***************************************************************************)
(* C16: output/debug.html is written only in the transient branch; each    *)
(* transient response overwrites it, so it holds the body of the most      *)
(* recent transient response; the write is done before the retry delay is  *)
(* slept and before the retry request is sent.                             *)
(* As stated this fails: the program drops a failed read of the body and   *)
(* a failed write, and the file then is not the body of the response.      *)
(***************************************************************************)
C16_TransientAlwaysOverwrites ==
  [][ /\ ~(Received /\ resp'.status \in TransientStatuses) =>
           debugFile' = debugFile
      /\ (Received /\ resp'.status \in TransientStatuses) =>
           /\ debugFile' = Some(resp'.body)
           /\ effects' = <<"write-ok", "sleep">>
           /\ phase' = "send"
           /\ nreq' = nreq
    ]_vars

(***************************************************************************)
(* C16, amended: the file is written only in the transient branch.  On a   *)
(* transient response, when the working directory cannot be determined the *)
(* branch aborts without writing or sleeping.  Otherwise, when the body    *)
(* can be read exactly one write is attempted, and it comes before the     *)
(* sleep of the retry delay, which comes before the retry request: a write *)
(* that succeeds leaves the file holding the body, a write that fails      *)
(* leaves it as it was or holding a proper prefix of the body, possibly    *)
(* empty.  When the body cannot be read nothing is written and the file    *)
(* stays as it was.                                                        *)
(***************************************************************************)
C16_ProperPrefixes(text) == { SubSeq(text, 1, n) : n \in 0..(Len(text) - 1) }

C16_DebugFileWrittenWhenPossible ==
  [][ /\ ~(Received /\ resp'.status \in TransientStatuses) =>
           debugFile' = debugFile
      /\ (Received /\ resp'.status \in TransientStatuses) =>
           /\ nreq' = nreq
           /\ IF phase' = "panic"
              THEN /\ err' = "Failed to get current directory"
                   /\ debugFile' = debugFile
                   /\ effects' = <<>>
                   /\ slept' = <<>>
              ELSE /\ phase' = "send"
                   /\ Len(slept') = 1
                   /\ IF resp'.textOk
                      THEN /\ effects' \in { <<"write-ok", "sleep">>,
                                             <<"write-failed", "sleep">> }
                           /\ effects'[1] = "write-ok" =>
                                debugFile' = Some(resp'.body)
                           /\ effects'[1] = "write-failed" =>
                                \/ debugFile' = debugFile
                                \/ \E t \in C16_ProperPrefixes(resp'.body) :
                                     debugFile' = Some(t)
                      ELSE /\ effects' = <<"sleep">>
                           /\ debugFile' = debugFile
      /\ nreq' # nreq => effects' = <<>>
    ]_vars

\* The write of the latest transient response failed after an earlier one
\* had been written whole, and the file holds the start of the new body;
\* the write came before the sleep and the retry is not sent yet.
C16_Witness ==
  /\ phase = "send"
  /\ resp.status \in TransientStatuses
  /\ resp.textOk
  /\ effects = <<"write-failed", "sleep">>
  /\ detours >= 2
  /\ debugFile # None
  /\ debugFile[1] # <<>>
  /\ debugFile[1] \in C16_ProperPrefixes(resp.body)

(***************************************************************************)
(* C17: a redirect chain that oscillates between two URLs without "login"  *)
(* is not detected: get_page never ends and requests the two URLs in turn, *)
(* each request after a 2-second sleep.                                    *)
(* Checked against the oscillating server for as many requests as the run  *)
(* is followed: get_page is never done and never stuck, and every response *)
(* sends it to the other URL of the ring.                                  *)
(***************************************************************************)
C17_Other(u) ==
  LET ring == CHOOSE g \in OscRings : u \in {g[1], g[2]}
  IN IF u = ring[1] THEN ring[2] ELSE ring[1]

C17_OscillationNeverEnds ==
  /\ [](nreq < MaxRequests => ENABLED OscNext)
  /\ [][ /\ phase' \in {"send", "await"}
         /\ err' = ""
         /\ pc' = "first"
         /\ phase = "send" =>
              (phase' = "await" /\ url' = url /\ nreq' = nreq + 1)
         /\ phase = "await" =>
              /\ Received
              /\ phase' = "send"
              /\ slept' = <<2>>
              /\ url' = C17_Other(url)
              /\ url' # url ]_vars

\* The chain has gone round twice and is back at the first URL, about to
\* request it again.
C17_Witness ==
  /\ phase = "send"
  /\ url = page
  /\ detours >= 4
  /\ nreq >= 4
  /\ slept = <<2>>

(***************************************************************************)
(* C18: the chosen final-page link is the last link, in document order, of *)
(* the first pagination nav among the links whose parent's title is not    *)
(* "next"; a "next" link is never chosen, even as the last link of the     *)
(* nav.                                                                    *)
(***************************************************************************)
C18_Candidates(nav) ==
  { k \in 1..Len(nav) : nav[k].partitle # Some("next") }

C18_LastNonNext(nav) ==
  LET last == CHOOSE k \in C18_Candidates(nav) :
                \A j \in C18_Candidates(nav) : j <= k
  IN nav[last].href[1]

C18_ChosenLink ==
  pager # <<>> =>
    /\ C18_Candidates(site[1]) # {}
    /\ pager = C18_LastNonNext(site[1])

\* Two navs; the first ends with a "next" link that points elsewhere than
\* the link before it, and the second nav would give another link.
C18_Witness ==
  /\ pager # <<>>
  /\ Len(site) = 2
  /\ site[1][Len(site[1])].partitle = Some("next")
  /\ site[1][Len(site[1])].href # Some(pager)
  /\ C18_LastNonNext(site[2]) # pager
  /\ pc = "done"

(***************************************************************************)
(* C19: a 301 or 302 response to a request whose own URL contains "login"  *)
(* is neither followed nor returned: get_page reaches the unknown-status   *)
(* arm and aborts, whatever the Location header says.                      *)
(***************************************************************************)
C19_LoginUrlRedirectFatal ==
  [][ ( /\ Received
        /\ resp'.status \in {301, 302}
        /\ Contains(url, Login) ) =>
        /\ phase' = "panic"
        /\ pc' = "panic"
        /\ err' = "Unknown status"
        /\ slept' = <<>>
        /\ nreq' = nreq
        /\ url' = url
        /\ result' = None ]_vars

\* A login URL, reached by a redirect, answered with a redirect to a page
\* that is no login page.
C19_Witness ==
  /\ phase = "panic"
  /\ Contains(url, Login)
  /\ resp.status \in {301, 302}
  /\ resp.headers["location"] = Some(Href(2))
  /\ err = "Unknown status"

(***************************************************************************)
(* C20: the parallel synthesis loses and duplicates nothing: for every     *)
(* interleaving, once the fan-out has finished the list holds exactly one  *)
(* URL per index of the range, and the loop reads the list only after      *)
(* every worker has pushed.                                                *)
(***************************************************************************)
C20_Pushed == { i \in DOMAIN wpc : wpc[i] = "done" }

C20_TimesInList(i) ==
  Cardinality({ k \in 1..Len(finalvec) :
                  finalvec[k] = StemOf(pager) \o to_string(i) })

C20_FanOutExact ==
  /\ pc = "fanout" =>
       /\ Len(finalvec) = Cardinality(C20_Pushed)
       /\ \A i \in DOMAIN wpc :
            C20_TimesInList(i) = (IF i \in C20_Pushed THEN 1 ELSE 0)
  /\ (pc = "aggregate" \/ lock = Some(Main)) => C20_Pushed = DOMAIN wpc
  /\ PlanBuilt =>
       /\ Len(finalvec) = PageIndexOf(pager)[1] - 1
       /\ \A i \in 1..(PageIndexOf(pager)[1] - 1) : C20_TimesInList(i) = 1

\* The loop runs over a list the workers filled out of index order.
C20_Witness ==
  /\ pc = "aggregate"
  /\ lock = Some(Main)
  /\ Len(finalvec) >= 2
  /\ finalvec[1] = StemOf(pager) \o to_string(2)

(***************************************************************************)
(* C21: the requests of get_init_page are strictly sequential: at most one *)
(* request is in flight at any time, the parallel workers issue none, and  *)
(* a request for a page of the plan is sent only when no request is in     *)
(* flight and at least 5 seconds after the previous page's 200 response.   *)
(***************************************************************************)
C21_SequentialRequests ==
  /\ [](inflight \in {0, 1})
  /\ [](pc = "fanout" => inflight = 0)
  /\ [][ wpc' # wpc => (nreq' = nreq /\ inflight' = inflight) ]_vars
  /\ [][ idx' # idx => (inflight = 0 /\ phase \in {"ret", "idle"}) ]_vars
  /\ [][ (pc = "aggregate" /\ nreq' = nreq + 1) =>
           /\ inflight = 0
           /\ sinceOk # None
           /\ sinceOk[1] >= Cooldown ]_vars

\* The request for the second page of the plan is in flight, after the
\* workers pushed and the earlier pages were fetched.
C21_Witness ==
  /\ pc = "aggregate"
  /\ idx = 2
  /\ phase = "await"
  /\ inflight = 1
  /\ nreq >= 3
  /\ sinceOk # None
  /\ \A i \in DOMAIN wpc : wpc[i] = "done"

(***************************************************************************)
(* C22: login sends the credential POST exactly once, and only after       *)
(* get_token has obtained a token through get_page and the 2-second sleep  *)
(* has passed; when the token fetch ends in the fatal abort no POST is     *)
(* ever sent; and the POST is neither retried on a transient status nor    *)
(* followed on a redirect.                                                 *)
(***************************************************************************)
C22_PostOnceAfterToken ==
  /\ [](Len(posts) <= 1)
  /\ [](pc = "loggedin" => Len(posts) = 1)
  /\ [](token = None => posts = <<>>)
  /\ [][ pc = "panic" => FALSE ]_vars
  /\ [][ posts' # posts =>
           /\ posts = <<>>
           /\ token # None
           /\ resp.status = StatusOk
           /\ FromStr(resp.body) = token
           /\ slept' = <<LoginSleep>>
           /\ sinceOk' = Some(Cooldown + LoginSleep)
           /\ \E file \in LoginFiles :
                /\ LoginInfoError(file) = ""
                /\ posts' = <<LoginBody(token[1], LoginInfo(file))>> ]_vars
  /\ [][ pc = "posting" =>
           /\ pc' \in {"loggedin", "panic"}
           /\ posts' = posts
           /\ nreq' = nreq
           /\ url' = url
           /\ inflight' = 0 ]_vars

\* The token came after a detour, the POST was answered with a transient
\* status or a redirect, and login returned with one POST sent.
C22_Witness ==
  /\ pc = "loggedin"
  /\ Len(posts) = 1
  /\ detours >= 1
  /\ token # None
  /\ resp.status \in TransientStatuses \cup {StatusFound, StatusMovedPermanently}
  /\ slept = <<LoginSleep>>

====
